---- MODULE Spec2Model ----
(***************************************************************************)
(* Model of src/at_command/socket.rs of the sim7020 driver: the four       *)
(* socket AT commands (CreateSocket, ConnectSocketToRemote,                *)
(* SendSocketMessage, CloseSocket), their get_command encoders and their   *)
(* parse_response decoders.                                                *)
(*                                                                         *)
(* Bytes are their ASCII codes, byte strings are sequences of codes.       *)
(* Option<T> is <<>> (None) or <<v>> (Some(v)).                            *)
(*                                                                         *)
(* The command builder and the response parser that socket.rs calls live   *)
(* in the external crate at_commands; their definitions below (sections    *)
(* "at_commands") are written from the specification of the command        *)
(* grammar primitive (sections 2, 4.1 and 6 of the specification).         *)
(***************************************************************************)
EXTENDS Integers, Sequences, FiniteSets

VARIABLES
    pc,       \* "idle" | "encoded" | "retried" | "decoded": what the caller did last
    cmd,      \* the command value the call was made on
    scratch,  \* the caller's buffer as handed to get_command
    buffer,   \* the caller's buffer when get_command ended
    data,     \* the reply bytes handed to parse_response
    result    \* what the call produced

vars == <<pc, cmd, scratch, buffer, data, result>>

(***************************************************************************)
(* Bounds of the model.                                                    *)
(***************************************************************************)
\* Buffers of 0..MaxBufLen bytes are handed to get_command.
MaxBufLen == 36
\* Largest number of bytes appended after a complete reply.
MaxTrail == 2

(***************************************************************************)
(* Byte strings of socket.rs.                                              *)
(***************************************************************************)
NameCSOC == <<43, 67, 83, 79, 67>>                   \* "+CSOC"
NameCSOCON == <<43, 67, 83, 79, 67, 79, 78>>         \* "+CSOCON"
NameCSOSEND == <<43, 67, 83, 79, 83, 69, 78, 68>>    \* "+CSOSEND"
NameCSOCL == <<43, 67, 83, 79, 67, 76>>              \* "+CSOCL"
ReplyPrefix == <<43, 67, 83, 79, 67, 58, 32>>        \* b"+CSOC: "
ReplyTerminator == <<13, 10, 13, 10, 79, 75, 13, 10>> \* b"\r\n\r\nOK\r\n"
ReplyOk == <<79, 75, 13, 10>>                        \* b"OK\r\n"

\* #[repr(u8)] discriminants of the three enums.
DomainCode(d) == CASE d = "IPv4" -> 1 [] d = "IPv6" -> 2
TypeCode(t) == CASE t = "TCP" -> 1 [] t = "UPD" -> 2 [] t = "RAW" -> 3
ProtocolCode(p) == CASE p = "IP" -> 1 [] p = "ICMP" -> 2 [] p = "UDPLITE" -> 3

Domains == {"IPv4", "IPv6"}
Types == {"TCP", "UPD", "RAW"}
Protocols == {"IP", "ICMP", "UDPLITE"}

(***************************************************************************)
(* Integer conversions of Rust.                                            *)
(***************************************************************************)
I32Min == -2147483647 - 1
I32Max == 2147483647

\* Rust's / and % truncate towards zero (b > 0 here; \div rounds down).
DivTrunc(a, b) == IF a >= 0 THEN a \div b ELSE (a + b - 1) \div b
RemTrunc(a, b) == a - b * DivTrunc(a, b)

\* `v as u8` on an i32: the low eight bits.
AsU8(v) == v % 256

(***************************************************************************)
(* at_commands: formatter.                                                 *)
(***************************************************************************)
IsDigit(b) == 48 <= b /\ b <= 57

\* write_int: digits are produced from the least significant one, on the
\* negated magnitude (a negative i32 holds every absolute value), then the sign.
RECURSIVE write_digits(_, _)
write_digits(value, acc) ==
    LET acc2 == <<48 + (-RemTrunc(value, 10))>> \o acc
        rest == DivTrunc(value, 10)
    IN IF rest = 0 THEN acc2 ELSE write_digits(rest, acc2)

write_int(value) ==
    LET neg == IF value < 0 THEN value ELSE -value
        digits == write_digits(neg, <<>>)
    IN IF value < 0 THEN <<45>> \o digits ELSE digits

\* parse_int: an optional sign, then decimal digits accumulated with checked
\* i32 arithmetic; None (<<>>) on an empty slice, a non-digit or an overflow.
RECURSIVE parse_digits(_, _, _)
parse_digits(s, acc, negative) ==
    IF s = <<>> THEN <<acc>>
    ELSE IF ~IsDigit(Head(s)) THEN <<>>
    ELSE LET d == Head(s) - 48
             fits == IF negative
                     THEN acc > -214748364 \/ (acc = -214748364 /\ d <= 8)
                     ELSE acc < 214748364 \/ (acc = 214748364 /\ d <= 7)
             nxt == IF negative THEN acc * 10 - d ELSE acc * 10 + d
         IN IF fits THEN parse_digits(Tail(s), nxt, negative) ELSE <<>>

parse_int(s) ==
    IF s = <<>> THEN <<>>
    ELSE LET negative == Head(s) = 45
             signed == Head(s) = 45 \/ Head(s) = 43
             digits == IF signed THEN Tail(s) ELSE s
         IN IF digits = <<>> THEN <<>> ELSE parse_digits(digits, 0, negative)

(***************************************************************************)
(* at_commands: CommandBuilder.  A builder is [buffer, index, sep]; index   *)
(* is 0-based and keeps counting past the end of the buffer; sep says that *)
(* the last thing appended was a parameter's separator.                    *)
(***************************************************************************)
\* try_append_data: the chunk is copied only when all of it fits; the index
\* advances either way.
try_append_data(b, bytes) ==
    LET end == b.index + Len(bytes)
    IN [buffer |-> IF end <= Len(b.buffer)
                   THEN [i \in 1..Len(b.buffer) |->
                            IF b.index < i /\ i <= end
                            THEN bytes[i - b.index] ELSE b.buffer[i]]
                   ELSE b.buffer,
        index |-> end,
        sep |-> FALSE]

\* The separator that follows every parameter.
append_separator(b) == [try_append_data(b, <<44>>) EXCEPT !.sep = TRUE]

create_set(buf, at_prefix) ==
    LET b == [buffer |-> buf, index |-> 0, sep |-> FALSE]
    IN IF at_prefix THEN try_append_data(b, <<65, 84>>) ELSE b

named(b, name) == try_append_data(try_append_data(b, name), <<61>>)

with_int_parameter(b, value) ==
    append_separator(try_append_data(b, write_int(value)))

with_string_parameter(b, str) ==
    append_separator(
        try_append_data(try_append_data(try_append_data(b, <<34>>), str), <<34>>))

with_raw_parameter(b, bytes) ==
    append_separator(try_append_data(b, bytes))

\* Mutant: the failure carries the size of the whole command, not the
\* number of bytes the buffer lacked.
finish_ErrTotalSize(b) ==
    LET dropped == IF b.sep THEN [b EXCEPT !.index = b.index - 1] ELSE b
        done == try_append_data(dropped, <<13, 10>>)
    IN IF done.index > Len(done.buffer)
       THEN [tag |-> "Err", n |-> done.index, bytes |-> <<>>,
             buffer |-> done.buffer]
       ELSE [tag |-> "Ok", n |-> 0, bytes |-> SubSeq(done.buffer, 1, done.index),
             buffer |-> done.buffer]

\* finish: drops the last parameter's separator and appends "\r\n".  On
\* success the result is the bytes written; on failure it is the number of
\* additional bytes that would have been required.
finish(b) ==
    LET dropped == IF b.sep THEN [b EXCEPT !.index = b.index - 1] ELSE b
        done == try_append_data(dropped, <<13, 10>>)
    IN IF done.index > Len(done.buffer)
       THEN [tag |-> "Err", n |-> done.index - Len(done.buffer), bytes |-> <<>>,
             buffer |-> done.buffer]
       ELSE [tag |-> "Ok", n |-> 0, bytes |-> SubSeq(done.buffer, 1, done.index),
             buffer |-> done.buffer]

(***************************************************************************)
(* get_command of the four commands.                                       *)
(***************************************************************************)
\* Mutant: an absent cid is encoded as the placeholder 0.
CreateSocket_get_command_PlaceholderCid(c, buf) ==
    finish(
      with_int_parameter(
        with_int_parameter(
          with_int_parameter(
            with_int_parameter(named(create_set(buf, TRUE), NameCSOC),
                               DomainCode(c.domain)),
            TypeCode(c.connection_type)),
          ProtocolCode(c.protocol)),
        IF c.cid # <<>> THEN c.cid[1] ELSE 0))

CreateSocket_get_command(c, buf) ==
    LET b3 == with_int_parameter(
                with_int_parameter(
                  with_int_parameter(named(create_set(buf, TRUE), NameCSOC),
                                     DomainCode(c.domain)),
                  TypeCode(c.connection_type)),
                ProtocolCode(c.protocol))
        b4 == IF c.cid # <<>> THEN with_int_parameter(b3, c.cid[1]) ELSE b3
    IN finish(b4)

\* Mutant: `self.port as i16`, which wraps the ports from 32768 up.
U16AsI16(v) == IF v >= 32768 THEN v - 65536 ELSE v

\* `self.port as i32` on a u16: every port keeps its value.
U16AsI32(v) == v

\* Mutant: the port is asserted after the command has been built.
ConnectSocketToRemote_get_command_LateAssert(c, buf) ==
    LET built == finish(
                   with_int_parameter(
                     with_string_parameter(
                       with_int_parameter(
                         with_int_parameter(
                           named(create_set(buf, TRUE), NameCSOCON), c.socket_id),
                         U16AsI32(c.port)),
                       c.remote_address),
                     TypeCode(c.connection_type)))
    IN IF ~(c.port > 0)
       THEN [tag |-> "Panic", n |-> 0, bytes |-> <<>>, buffer |-> built.buffer]
       ELSE built

\* assert!(self.port > 0) comes first: a zero port panics with the buffer untouched.
ConnectSocketToRemote_get_command(c, buf) ==
    IF ~(c.port > 0)
    THEN [tag |-> "Panic", n |-> 0, bytes |-> <<>>, buffer |-> buf]
    ELSE finish(
           with_int_parameter(
             with_string_parameter(
               with_int_parameter(
                 with_int_parameter(named(create_set(buf, TRUE), NameCSOCON),
                                    c.socket_id),
                 U16AsI32(c.port)),
               c.remote_address),
             TypeCode(c.connection_type)))

SendSocketMessage_get_command(c, buf) ==
    finish(
      with_raw_parameter(
        with_int_parameter(
          with_int_parameter(named(create_set(buf, TRUE), NameCSOSEND), c.socket_id),
          c.data_len),
        c.data))

\* Mutant: the command is named "+CSOC", as CreateSocket's.
CloseSocket_get_command_WrongName(c, buf) ==
    finish(with_int_parameter(named(create_set(buf, TRUE), NameCSOC), c.socket_id))

CloseSocket_get_command(c, buf) ==
    finish(with_int_parameter(named(create_set(buf, TRUE), NameCSOCL), c.socket_id))

\* The AtRequest::get_command of the command's own type.
get_command(c, buf) ==
    CASE c.kind = "CreateSocket" -> CreateSocket_get_command(c, buf)
      [] c.kind = "ConnectSocketToRemote" -> ConnectSocketToRemote_get_command(c, buf)
      [] c.kind = "SendSocketMessage" -> SendSocketMessage_get_command(c, buf)
      [] c.kind = "CloseSocket" -> CloseSocket_get_command(c, buf)

(***************************************************************************)
(* at_commands: CommandParser.  A parser is [buffer, buffer_index,         *)
(* data_valid, data]; buffer_index is 0-based, data the parsed integers.   *)
(***************************************************************************)
parse(bytes) ==
    [buffer |-> bytes, buffer_index |-> 0, data_valid |-> TRUE, data |-> <<>>]

\* Steps over the spaces at the index.
RECURSIVE skip_spaces(_, _)
skip_spaces(bytes, i) ==
    IF i < Len(bytes) /\ bytes[i + 1] = 32 THEN skip_spaces(bytes, i + 1) ELSE i

trim_space(p) ==
    IF ~p.data_valid THEN p
    ELSE [p EXCEPT !.buffer_index = skip_spaces(p.buffer, p.buffer_index)]

\* expect_identifier: the literal must be at the index, byte for byte.
expect_identifier(p, identifier) ==
    IF ~p.data_valid THEN p
    ELSE IF Len(p.buffer) - p.buffer_index < Len(identifier)
    THEN [p EXCEPT !.data_valid = FALSE]
    ELSE trim_space(
           [p EXCEPT !.data_valid =
                        \A i \in 1..Len(identifier) :
                            p.buffer[p.buffer_index + i] = identifier[i],
                     !.buffer_index = p.buffer_index + Len(identifier)])

\* The index after the run of digits and signs that starts at i.
RECURSIVE find_end_of_int_parameter(_, _)
find_end_of_int_parameter(bytes, i) ==
    IF i < Len(bytes)
       /\ (IsDigit(bytes[i + 1]) \/ bytes[i + 1] = 45 \/ bytes[i + 1] = 43)
    THEN find_end_of_int_parameter(bytes, i + 1) ELSE i

\* expect_int_parameter: parses the run, steps over one separating comma and
\* the spaces after it; an empty or unparsable run invalidates the parser.
expect_int_parameter(p) ==
    IF ~p.data_valid THEN [p EXCEPT !.data = Append(p.data, 0)]
    ELSE LET parameter_end == find_end_of_int_parameter(p.buffer, p.buffer_index)
             int_slice == SubSeq(p.buffer, p.buffer_index + 1, parameter_end)
             parsed_int == parse_int(int_slice)
             comma == IF parameter_end < Len(p.buffer)
                         /\ p.buffer[parameter_end + 1] = 44 THEN 1 ELSE 0
         IN IF int_slice = <<>>
            THEN [p EXCEPT !.data_valid = FALSE, !.data = Append(p.data, 0)]
            ELSE IF parsed_int = <<>>
            THEN [p EXCEPT !.data_valid = FALSE, !.data = Append(p.data, 0),
                           !.buffer_index = parameter_end + comma]
            ELSE trim_space([p EXCEPT !.data = Append(p.data, parsed_int[1]),
                                      !.buffer_index = parameter_end + comma])

\* finish: Ok(data) when every expectation held, whatever follows the index.
parser_finish(p) ==
    IF p.data_valid THEN [ok |-> TRUE, data |-> p.data]
    ELSE [ok |-> FALSE, data |-> <<>>]

(***************************************************************************)
(* parse_response.  The result is [tag, n, bytes]: tag "SocketCreated"     *)
(* carries the identifier in n, tag "RespOk" is AtResponse::Ok, tag        *)
(* "ParseError" the AtError the `?` returns.                               *)
(***************************************************************************)
\* Mutant: the terminator block is expected with a single line ending.
CreateSocket_parse_response_ShortTerminator(c, bytes) ==
    LET socket_id == parser_finish(
                       expect_identifier(
                         expect_int_parameter(
                           expect_identifier(parse(bytes), ReplyPrefix)),
                         <<13, 10, 79, 75, 13, 10>>))
    IN IF ~socket_id.ok
       THEN [tag |-> "ParseError", n |-> 0, bytes |-> <<>>]
       ELSE [tag |-> "SocketCreated", n |-> AsU8(socket_id.data[1]), bytes |-> <<>>]

CreateSocket_parse_response(c, bytes) ==
    LET socket_id == parser_finish(
                       expect_identifier(
                         expect_int_parameter(
                           expect_identifier(parse(bytes), ReplyPrefix)),
                         ReplyTerminator))
    IN IF ~socket_id.ok
       THEN [tag |-> "ParseError", n |-> 0, bytes |-> <<>>]
       ELSE [tag |-> "SocketCreated", n |-> AsU8(socket_id.data[1]), bytes |-> <<>>]

ConnectSocketToRemote_parse_response(c, bytes) ==
    IF ~parser_finish(expect_identifier(parse(bytes), ReplyOk)).ok
    THEN [tag |-> "ParseError", n |-> 0, bytes |-> <<>>]
    ELSE [tag |-> "RespOk", n |-> 0, bytes |-> <<>>]

SendSocketMessage_parse_response(c, bytes) ==
    IF ~parser_finish(expect_identifier(parse(bytes), ReplyOk)).ok
    THEN [tag |-> "ParseError", n |-> 0, bytes |-> <<>>]
    ELSE [tag |-> "RespOk", n |-> 0, bytes |-> <<>>]

(***************************************************************************)
(* Reference renderings, written independently of the builder: what the    *)
(* modem's grammar expects.                                                *)
(***************************************************************************)
RECURSIVE DecNat(_)
DecNat(v) == IF v < 10 THEN <<48 + v>> ELSE DecNat(v \div 10) \o <<48 + (v % 10)>>

Dec(v) ==
    IF v >= 0 THEN DecNat(v)
    ELSE IF v = I32Min THEN <<45, 50, 49, 52, 55, 52, 56, 51, 54, 52, 56>>
    ELSE <<45>> \o DecNat(-v)

CRLF == <<13, 10>>
ATPrefix == <<65, 84>>

WireForm(c) ==
    CASE c.kind = "CreateSocket" ->
           ATPrefix \o NameCSOC \o <<61>> \o Dec(DomainCode(c.domain)) \o <<44>>
           \o Dec(TypeCode(c.connection_type)) \o <<44>>
           \o Dec(ProtocolCode(c.protocol))
           \o (IF c.cid = <<>> THEN <<>> ELSE <<44>> \o Dec(c.cid[1])) \o CRLF
      [] c.kind = "ConnectSocketToRemote" ->
           ATPrefix \o NameCSOCON \o <<61>> \o Dec(c.socket_id) \o <<44>>
           \o Dec(c.port) \o <<44, 34>> \o c.remote_address \o <<34, 44>>
           \o Dec(TypeCode(c.connection_type)) \o CRLF
      [] c.kind = "SendSocketMessage" ->
           ATPrefix \o NameCSOSEND \o <<61>> \o Dec(c.socket_id) \o <<44>>
           \o Dec(c.data_len) \o <<44>> \o c.data \o CRLF
      [] c.kind = "CloseSocket" ->
           ATPrefix \o NameCSOCL \o <<61>> \o Dec(c.socket_id) \o CRLF

\* The modem's reply to a successful CreateSocket that assigns identifier v.
CreateReply(v) == ReplyPrefix \o Dec(v) \o ReplyTerminator

(***************************************************************************)
(* The caller: the command values, buffers and replies it hands in.        *)
(***************************************************************************)
Fills == {0, 44}
Scratch(len, fill) == [i \in 1..len |-> fill]
NoResult == [tag |-> "None", n |-> 0, bytes |-> <<>>]

CidSamples == {<<>>, <<0>>, <<3>>, <<10>>, <<-1>>, <<-120>>, <<I32Max>>, <<I32Min>>}
SocketIds == {0, 9, 10, 255}
Ports == {0, 1, 10, 1111, 32767, 32768, 65535}
Addresses == {<<>>, <<104>>, <<49, 46, 50, 46, 51, 46, 52>>}  \* "", "h", "1.2.3.4"
DataLens == {0, 1, 2, 3, 10, 65535}
Payloads ==
    {<<>>, <<97>>, <<97, 98>>, <<44>>, <<97, 44>>, <<13, 10>>, <<1, 0, 255>>,
     <<48, 49, 50, 51, 52, 53, 54, 55, 56, 57>>}

CreateSockets ==
    [kind : {"CreateSocket"}, domain : Domains, connection_type : Types,
     protocol : Protocols, cid : CidSamples]
ConnectSockets ==
    [kind : {"ConnectSocketToRemote"}, socket_id : SocketIds, port : Ports,
     remote_address : Addresses, connection_type : Types]
\* data_len and data are independent fields: nothing in socket.rs ties them.
SendMessages ==
    [kind : {"SendSocketMessage"}, socket_id : SocketIds, data_len : DataLens,
     data : Payloads]
CloseSockets == [kind : {"CloseSocket"}, socket_id : SocketIds]

\* The command values parse_response is called on.
ParsingCreateSockets ==
    { [kind |-> "CreateSocket", domain |-> "IPv4", connection_type |-> "TCP",
       protocol |-> "IP", cid |-> <<>>],
      [kind |-> "CreateSocket", domain |-> "IPv6", connection_type |-> "RAW",
       protocol |-> "UDPLITE", cid |-> <<3>>] }
ParsingConnectSockets ==
    { [kind |-> "ConnectSocketToRemote", socket_id |-> 1, port |-> 1111,
       remote_address |-> <<104>>, connection_type |-> "TCP"] }
ParsingSendMessages ==
    { [kind |-> "SendSocketMessage", socket_id |-> 1, data_len |-> 2,
       data |-> <<97, 98>>] }

\* Byte strings of length 0..n over the bytes of S.
RECURSIVE SeqsUpTo(_, _)
SeqsUpTo(S, n) ==
    IF n = 0 THEN {<<>>}
    ELSE LET shorter == SeqsUpTo(S, n - 1)
         IN shorter \cup {Append(s, b) : s \in shorter, b \in S}

\* Replies to CreateSocket: the well-formed reply for every identifier and for
\* integers outside 0..255, then damaged forms of a few well-formed replies:
\* cut short, one byte removed, replaced or inserted, two neighbours swapped,
\* bytes in front, bytes behind.
ReplyInts == (0..255) \cup {256, 261, 511, 1000, 65535, -1, -5, -251, -256}
DamagedInts == {0, 5, 42, 255}
DamageBytes == {88, 13, 10, 79, 48}         \* 'X', CR, LF, 'O', '0'
TrailBytes == {88, 13, 10}                  \* 'X', CR, LF

Truncations(s) == {SubSeq(s, 1, k) : k \in 0..(Len(s) - 1)}
Removals(s) == {SubSeq(s, 1, k - 1) \o SubSeq(s, k + 1, Len(s)) : k \in 1..Len(s)}
Replacements(s) ==
    {[s EXCEPT ![k] = b] : k \in 1..Len(s), b \in DamageBytes}
Insertions(s) ==
    {SubSeq(s, 1, k) \o <<b>> \o SubSeq(s, k + 1, Len(s)) :
        k \in 0..Len(s), b \in DamageBytes}
Swaps(s) ==
    {[s EXCEPT ![k] = s[k + 1], ![k + 1] = s[k]] : k \in 1..(Len(s) - 1)}
Trailed(s) == {s \o t : t \in SeqsUpTo(TrailBytes, MaxTrail)}

Damaged(s) ==
    Truncations(s) \cup Removals(s) \cup Replacements(s) \cup Insertions(s)
    \cup Swaps(s) \cup Trailed(s)

CreateReplies ==
    {CreateReply(v) : v \in ReplyInts}
    \cup UNION {Damaged(CreateReply(v)) : v \in DamagedInts}
    \cup UNION {Trailed(CreateReply(v)) : v \in {256, -1}}

\* Replies to ConnectSocketToRemote and SendSocketMessage: every byte string
\* no longer than "OK\r\n" over its bytes and two others, and "OK\r\n" with
\* bytes behind.
OkBytes == {79, 75, 13, 10, 88, 32}         \* 'O', 'K', CR, LF, 'X', ' '
OkReplies == SeqsUpTo(OkBytes, Len(ReplyOk)) \cup Trailed(ReplyOk)

Init ==
    /\ pc = "idle"
    /\ cmd = [kind |-> "None"]
    /\ scratch = <<>>
    /\ buffer = <<>>
    /\ data = <<>>
    /\ result = NoResult

\* A call of get_command on c with the buffer buf.
Encode(c, buf, next_pc) ==
    LET r == get_command(c, buf)
    IN /\ pc' = next_pc
       /\ cmd' = c
       /\ scratch' = buf
       /\ buffer' = r.buffer
       /\ result' = [tag |-> r.tag, n |-> r.n, bytes |-> r.bytes]
       /\ UNCHANGED data

EncodeCreateSocket ==
    /\ pc = "idle"
    /\ \E c \in CreateSockets, len \in 0..MaxBufLen, fill \in Fills :
         Encode(c, Scratch(len, fill), "encoded")

EncodeConnectSocketToRemote ==
    /\ pc = "idle"
    /\ \E c \in ConnectSockets, len \in 0..MaxBufLen, fill \in Fills :
         Encode(c, Scratch(len, fill), "encoded")

EncodeSendSocketMessage ==
    /\ pc = "idle"
    /\ \E c \in SendMessages, len \in 0..MaxBufLen, fill \in Fills :
         Encode(c, Scratch(len, fill), "encoded")

EncodeCloseSocket ==
    /\ pc = "idle"
    /\ \E c \in CloseSockets, len \in 0..MaxBufLen, fill \in Fills :
         Encode(c, Scratch(len, fill), "encoded")

\* After Err(n) the caller calls get_command again on the same command, with
\* a zeroed buffer n bytes longer.
RetryEnlarged ==
    /\ pc = "encoded"
    /\ result.tag = "Err"
    /\ Encode(cmd, Scratch(Len(scratch) + result.n, 0), "retried")

\* A call of parse_response on c with the reply bytes.
Decode(c, bytes, r) ==
    /\ pc' = "decoded"
    /\ cmd' = c
    /\ data' = bytes
    /\ result' = r
    /\ UNCHANGED <<scratch, buffer>>

ParseCreateSocket ==
    /\ pc = "idle"
    /\ \E c \in ParsingCreateSockets, bytes \in CreateReplies :
         Decode(c, bytes, CreateSocket_parse_response(c, bytes))

ParseConnectSocketToRemote ==
    /\ pc = "idle"
    /\ \E c \in ParsingConnectSockets, bytes \in OkReplies :
         Decode(c, bytes, ConnectSocketToRemote_parse_response(c, bytes))

ParseSendSocketMessage ==
    /\ pc = "idle"
    /\ \E c \in ParsingSendMessages, bytes \in OkReplies :
         Decode(c, bytes, SendSocketMessage_parse_response(c, bytes))

Next ==
    \/ EncodeCreateSocket
    \/ EncodeConnectSocketToRemote
    \/ EncodeSendSocketMessage
    \/ EncodeCloseSocket
    \/ RetryEnlarged
    \/ ParseCreateSocket
    \/ ParseConnectSocketToRemote
    \/ ParseSendSocketMessage

Spec == Init /\ [][Next]_vars

(***************************************************************************)
(* The claims.                                                             *)
(***************************************************************************)
\* The call was a get_command that the buffer was large enough for.
Encoded(kind) ==
    /\ pc \in {"encoded", "retried"}
    /\ cmd.kind = kind
LargeEnough == Len(scratch) >= Len(WireForm(cmd))
Decoded(kind) == pc = "decoded" /\ cmd.kind = kind

\* C1: for every CreateSocket value and a buffer large enough, get_command
\* returns exactly "AT+CSOC=<d>,<t>,<p>", then ",<cid>" only when cid is
\* present, then "\r\n"; an absent cid leaves no parameter, separator or
\* placeholder.
C1_CreateSocketWireForm ==
    (Encoded("CreateSocket") /\ LargeEnough) =>
        /\ result.tag = "Ok"
        /\ result.bytes =
             <<65, 84, 43, 67, 83, 79, 67, 61>>
             \o Dec(DomainCode(cmd.domain)) \o <<44>>
             \o Dec(TypeCode(cmd.connection_type)) \o <<44>>
             \o Dec(ProtocolCode(cmd.protocol))
             \o (IF cmd.cid = <<>> THEN <<>> ELSE <<44>> \o Dec(cmd.cid[1]))
             \o <<13, 10>>
        /\ cmd.cid = <<>> => Len(result.bytes) = 15

C1_Witness ==
    /\ Encoded("CreateSocket")
    /\ cmd.cid = <<>>
    /\ cmd.domain = "IPv6" /\ cmd.connection_type = "RAW" /\ cmd.protocol = "ICMP"
    /\ result.tag = "Ok"
    /\ result.bytes = <<65, 84, 43, 67, 83, 79, 67, 61, 50, 44, 51, 44, 50, 13, 10>>

\* C2: for every ConnectSocketToRemote value with port > 0 and a buffer large
\* enough, get_command returns exactly
\* "AT+CSOCON=<socket_id>,<port>,\"<remote_address>\",<t>\r\n", the port in
\* decimal with its full unsigned 16-bit value.
C2_ConnectWireForm ==
    (Encoded("ConnectSocketToRemote") /\ cmd.port > 0 /\ LargeEnough) =>
        /\ result.tag = "Ok"
        /\ result.bytes =
             <<65, 84, 43, 67, 83, 79, 67, 79, 78, 61>>
             \o Dec(cmd.socket_id) \o <<44>>
             \o Dec(cmd.port) \o <<44>>
             \o <<34>> \o cmd.remote_address \o <<34>> \o <<44>>
             \o Dec(TypeCode(cmd.connection_type))
             \o <<13, 10>>

C2_Witness ==
    /\ Encoded("ConnectSocketToRemote")
    /\ cmd.port = 65535 /\ cmd.socket_id = 255
    /\ cmd.remote_address = <<49, 46, 50, 46, 51, 46, 52>>
    /\ result.tag = "Ok"
    /\ SubSeq(result.bytes, 11, 20) = <<50, 53, 53, 44, 54, 53, 53, 51, 53, 44>>

\* C3: get_command on a ConnectSocketToRemote whose port is 0 never returns
\* command bytes: it panics, and the caller's buffer is then as it was handed in.
C3_ZeroPortPanics ==
    (Encoded("ConnectSocketToRemote") /\ cmd.port = 0) =>
        /\ result.tag = "Panic"
        /\ result.bytes = <<>>
        /\ buffer = scratch

C3_Witness ==
    /\ Encoded("ConnectSocketToRemote")
    /\ cmd.port = 0
    /\ Len(scratch) = MaxBufLen
    /\ result.tag = "Panic"

\* C4: for every socket identifier v in 0..255, CreateSocket::parse_response on
\* "+CSOC: <v>\r\n\r\nOK\r\n" yields SocketCreated(v), whatever the command's fields.
C4_CreateReplyParsed ==
    Decoded("CreateSocket") =>
        \A v \in 0..255 :
            data = CreateReply(v) => (result.tag = "SocketCreated" /\ result.n = v)

C4_Witness ==
    /\ Decoded("CreateSocket")
    /\ cmd.cid = <<3>>
    /\ data = CreateReply(255)
    /\ result.tag = "SocketCreated" /\ result.n = 255

\* An integer as the modem writes it: an optional minus sign, then digits.
IntText(m) ==
    LET digits == IF m # <<>> /\ m[1] = 45 THEN Tail(m) ELSE m
    IN digits # <<>> /\ \A i \in 1..Len(digits) : IsDigit(digits[i])

\* Exactly "+CSOC: ", one integer, "\r\n\r\nOK\r\n", and nothing else.
ExactCreateReply(s) ==
    /\ Len(s) > Len(ReplyPrefix) + Len(ReplyTerminator)
    /\ SubSeq(s, 1, Len(ReplyPrefix)) = ReplyPrefix
    /\ SubSeq(s, Len(s) - Len(ReplyTerminator) + 1, Len(s)) = ReplyTerminator
    /\ IntText(SubSeq(s, Len(ReplyPrefix) + 1, Len(s) - Len(ReplyTerminator)))

\* C5: CreateSocket::parse_response yields an error for every byte sequence
\* that is not exactly "+CSOC: ", one integer, "\r\n\r\nOK\r\n" and nothing
\* else (extra bytes before the prefix or after the terminator included).
C5_OnlyExactReplyParses ==
    (Decoded("CreateSocket") /\ ~ExactCreateReply(data)) => result.tag = "ParseError"

\* C6: parse_response of ConnectSocketToRemote and of SendSocketMessage yields
\* AtResponse::Ok on "OK\r\n" and an error on every other byte sequence.
C6_OnlyOkParses ==
    (Decoded("ConnectSocketToRemote") \/ Decoded("SendSocketMessage")) =>
        /\ data = ReplyOk => result.tag = "RespOk"
        /\ data # ReplyOk => result.tag = "ParseError"

TooSmall ==
    /\ pc = "encoded"
    /\ Len(scratch) < Len(WireForm(cmd))

\* The command is one get_command encodes: a ConnectSocketToRemote has port > 0.
Encodable == ~(cmd.kind = "ConnectSocketToRemote" /\ cmd.port = 0)

\* C8 as stated: with a buffer too small, every command type fails with the
\* number of additional bytes needed (full command length minus buffer
\* length), never a truncated command, and the call repeated with the buffer
\* enlarged by that number succeeds.
C8_TooSmallReturnsShortfall ==
    /\ TooSmall =>
         /\ result.tag = "Err"
         /\ result.bytes = <<>>
         /\ result.n = Len(WireForm(cmd)) - Len(scratch)
    /\ pc = "retried" => (result.tag = "Ok" /\ result.bytes = WireForm(cmd))

\* C8 as amended: the same, for every command get_command encodes; a
\* ConnectSocketToRemote with port 0 panics (C3) and returns no failure value.
C8_EncodableTooSmallReturnsShortfall ==
    /\ (TooSmall /\ Encodable) =>
         /\ result.tag = "Err"
         /\ result.bytes = <<>>
         /\ result.n = Len(WireForm(cmd)) - Len(scratch)
    /\ pc = "retried" => (result.tag = "Ok" /\ result.bytes = WireForm(cmd))

C8_Witness ==
    /\ pc = "retried"
    /\ cmd.kind = "ConnectSocketToRemote"
    /\ cmd.port = 65535
    /\ Len(scratch) = Len(WireForm(cmd))
    /\ result.tag = "Ok"
    /\ result.bytes = WireForm(cmd)

\* C9: for every socket identifier and a buffer large enough,
\* CloseSocket::get_command returns exactly "AT+CSOCL=<socket_id>\r\n".
C9_CloseWireForm ==
    (Encoded("CloseSocket") /\ LargeEnough) =>
        /\ result.tag = "Ok"
        /\ result.bytes =
             <<65, 84, 43, 67, 83, 79, 67, 76, 61>> \o Dec(cmd.socket_id) \o <<13, 10>>

C9_Witness ==
    /\ pc = "encoded"
    /\ cmd.kind = "CloseSocket" /\ cmd.socket_id = 255
    /\ result.tag = "Ok"
    /\ result.bytes = <<65, 84, 43, 67, 83, 79, 67, 76, 61, 50, 53, 53, 13, 10>>

\* C10: whenever CreateSocket::parse_response yields SocketCreated(id), id is
\* the integer the modem wrote and lies in 0..255; an integer outside 0..255
\* never yields a wrapped identifier.
C10_IdIsWrittenInteger ==
    (Decoded("CreateSocket") /\ result.tag = "SocketCreated") =>
        \A v \in ReplyInts :
            data = CreateReply(v) => (result.n = v /\ v \in 0..255)

====
